---- MODULE Spec2Model ----
(***************************************************************************)
(* Model of logo/bmp-to-logo.py: the converter of a bitmap into the page-  *)
(* addressed byte array of an SSD1306 display, the C array literal built   *)
(* from it and the text preview.                                           *)
(*                                                                         *)
(* The display geometry of the program is 128x64 with 8-row pages.  The    *)
(* model keeps the page height (8) and the line length of the literal (16) *)
(* and scales the display down to DisplayWidth x (8 * DisplayPages).       *)
(* Pillow (Image.open, resize, convert) is outside the repository: its     *)
(* result is a nondeterministic choice among 1-bit grids of the image's    *)
(* size, with the pixel values 0 and 255 the program reads.                *)
(***************************************************************************)
EXTENDS Integers, Sequences, FiniteSets, TLC

\* ------------------------------------------------------------------ bounds
DisplayWidth == 16
DisplayPages == 2

\* ------------------------------------------------------- program constants
PageRows == 8
bytes_per_line == 16

DisplayHeight == PageRows * DisplayPages
DisplaySize == <<DisplayWidth, DisplayHeight>>

\* sizes of the image in the input file: the display's and one that differs
\* in both dimensions, its height no multiple of 8 (the 100x50 of the example)
SmallSize == <<DisplayWidth - 3, DisplayHeight - 5>>
Sizes == {DisplaySize, SmallSize}

\* --------------------------------------------------------------- the grids
Black == 0
White == 255

\* base patterns: all dark, all light, checkerboards of 8x8 squares
BaseValue(base, cx, cy) ==
    CASE base = "dark" -> Black
      [] base = "light" -> White
      [] base = "checker0" ->
            IF ((cx \div 8) + (cy \div 8)) % 2 = 0 THEN Black ELSE White
      [] base = "checker1" ->
            IF ((cx \div 8) + (cy \div 8)) % 2 = 1 THEN Black ELSE White

Bases == {"dark", "light", "checker0", "checker1"}

Invert(v) == IF v = Black THEN White ELSE Black

\* pixels flipped on top of a base: none, one row, one column, one cell of
\* the diagonal
Flips(w, h) ==
    {<<"none", 0>>}
      \cup {<<"row", r>> : r \in 0 .. h - 1}
      \cup {<<"col", c>> : c \in 0 .. w - 1}
      \cup {<<"cell", r>> : r \in 0 .. h - 1}

Flipped(f, w, cx, cy) ==
    CASE f[1] = "none" -> FALSE
      [] f[1] = "row" -> cy = f[2]
      [] f[1] = "col" -> cx = f[2]
      [] f[1] = "cell" -> cy = f[2] /\ cx = f[2] % w

\* the pixel access object: Grid(...)[cx][cy] is pixels[cx, cy]
Grid(base, f, w, h) ==
    [cx \in 0 .. w - 1 |->
        [cy \in 0 .. h - 1 |->
            IF Flipped(f, w, cx, cy)
            THEN Invert(BaseValue(base, cx, cy))
            ELSE BaseValue(base, cx, cy)]]

\* img.convert('1') followed by img.load(): some 1-bit grid of the size
PixelGrids(size) ==
    {Grid(base, f, size[1], size[2]) :
        base \in Bases, f \in Flips(size[1], size[2])}

NoPixels == <<>>

\* ------------------------------------------------------------------- state
VARIABLES
    pc,          \* position in main / convert_bmp_to_ssd1306_array
    exists,      \* os.path.exists(args.input)
    isBmp,       \* args.input.lower().endswith('.bmp')
    openable,    \* Image.open succeeds
    srcSize,     \* size of the image in the file
    imgSize,     \* img.size
    pixels,      \* pixels = img.load()
    width, height, pages,
    byte_array,
    page, x,     \* loop variables of the packing loops
    c_code,      \* the C code being built
    i,           \* loop variable of the hex line loop
    y,           \* loop variable of the preview loop
    stdout,      \* what print() has written
    stderr,      \* what has been written to sys.stderr
    exitCode     \* -1 while running, then the exit status

vars == <<pc, exists, isBmp, openable, srcSize, imgSize, pixels, width, height,
          pages, byte_array, page, x, c_code, i, y, stdout, stderr, exitCode>>

Out(kind, text) == [kind |-> kind, text |-> text]

NoCode == [width |-> 0, height |-> 0, bytes |-> 0, lines |-> <<>>, closed |-> FALSE]

Init ==
    /\ pc = "main"
    /\ exists \in BOOLEAN
    /\ isBmp \in BOOLEAN
    /\ openable \in (IF exists THEN BOOLEAN ELSE {FALSE})
    /\ srcSize \in Sizes
    /\ imgSize = <<0, 0>>
    /\ pixels = NoPixels
    /\ width = 0 /\ height = 0 /\ pages = 0
    /\ byte_array = <<>>
    /\ page = 0 /\ x = 0
    /\ c_code = NoCode
    /\ i = 0
    /\ y = 0
    /\ stdout = <<>>
    /\ stderr = <<>>
    /\ exitCode = -1

\* -------------------------------------------------------------------- main
\* if not os.path.exists(args.input): print(...); sys.exit(1)
MainCheckExistsNoExit ==
    /\ pc = "main"
    /\ stdout' = IF ~exists THEN Append(stdout, Out("file_not_found", <<>>))
                 ELSE stdout
    /\ pc' = "check_ext"
    /\ UNCHANGED <<exists, isBmp, openable, srcSize, imgSize, pixels, width,
                   height, pages, byte_array, page, x, c_code, i, y, stderr,
                   exitCode>>

MainCheckExists ==
    /\ pc = "main"
    /\ IF ~exists
       THEN /\ stdout' = Append(stdout, Out("file_not_found", <<>>))
            /\ exitCode' = 1
            /\ pc' = "exit"
       ELSE /\ pc' = "check_ext"
            /\ UNCHANGED <<stdout, exitCode>>
    /\ UNCHANGED <<exists, isBmp, openable, srcSize, imgSize, pixels, width,
                   height, pages, byte_array, page, x, c_code, i, y, stderr>>

\* if not args.input.lower().endswith('.bmp'): print(warning); then the call
MainCheckExt ==
    /\ pc = "check_ext"
    /\ stdout' = IF ~isBmp THEN Append(stdout, Out("warn_ext", <<>>)) ELSE stdout
    /\ pc' = "open"
    /\ UNCHANGED <<exists, isBmp, openable, srcSize, imgSize, pixels, width,
                   height, pages, byte_array, page, x, c_code, i, y, stderr,
                   exitCode>>

\* ------------------------------------------- convert_bmp_to_ssd1306_array
\* img = Image.open(input_file); a failure is caught by the except clause:
\* print(f"Ошибка: {e}"); sys.exit(1)
Open ==
    /\ pc = "open"
    /\ IF openable
       THEN /\ imgSize' = srcSize
            /\ pc' = "check_size"
            /\ UNCHANGED <<stdout, exitCode>>
       ELSE /\ stdout' = Append(stdout, Out("error", <<>>))
            /\ exitCode' = 1
            /\ pc' = "exit"
            /\ UNCHANGED imgSize
    /\ UNCHANGED <<exists, isBmp, openable, srcSize, pixels, width, height,
                   pages, byte_array, page, x, c_code, i, y, stderr>>

\* if img.size != (128, 64): two warnings, img = img.resize((128, 64), ...)
CheckSizeNoResize ==
    /\ pc = "check_size"
    /\ IF imgSize # DisplaySize
       THEN stdout' = stdout \o << Out("warn_size", <<>>),
                                   Out("warn_scaled", <<>>) >>
       ELSE UNCHANGED stdout
    /\ pc' = "convert"
    /\ UNCHANGED <<exists, isBmp, openable, srcSize, imgSize, pixels, width,
                   height, pages, byte_array, page, x, c_code, i, y, stderr,
                   exitCode>>

CheckSize ==
    /\ pc = "check_size"
    /\ IF imgSize # DisplaySize
       THEN /\ stdout' = stdout \o << Out("warn_size", <<>>),
                                      Out("warn_scaled", <<>>) >>
            /\ imgSize' = DisplaySize
       ELSE UNCHANGED <<stdout, imgSize>>
    /\ pc' = "convert"
    /\ UNCHANGED <<exists, isBmp, openable, srcSize, pixels, width, height,
                   pages, byte_array, page, x, c_code, i, y, stderr, exitCode>>

\* bit_value = 1 if pixel_value == 0 else 0
bit_value_inverted(pixel_value) == IF pixel_value = 0 THEN 0 ELSE 1
bit_value(pixel_value) == IF pixel_value = 0 THEN 1 ELSE 0

\* bit_value << bit
ShiftLeftReversed(v, bit) == v * 2 ^ (7 - bit)
ShiftLeft(v, bit) == v * 2 ^ bit

\* the body of "for bit in range(8)" for the bits below n: the bits or-ed into
\* byte_value are distinct, so the or is a sum
RECURSIVE PackBits(_, _, _, _, _)
PackBits(px, pg, col, h, n) ==
    IF n = 0 THEN 0
    ELSE LET bit == n - 1
             row == pg * 8 + bit
         IN  PackBits(px, pg, col, h, n - 1)
               + (IF row < h THEN ShiftLeft(bit_value(px[col][row]), bit) ELSE 0)

\* byte_value after the loop over range(8)
PackByteSevenBits(px, pg, col, h) == PackBits(px, pg, col, h, 7)
PackByte(px, pg, col, h) == PackBits(px, pg, col, h, 8)

\* pages = height // 8
PageCountOffByOne(h) == h \div 8 + 1
PageCount(h) == h \div 8

\* "for page in range(pages)" is exhausted
PackDoneAfterFirstPage(pg, n) == pg >= 1
PackDone(pg, n) == pg >= n

\* img = img.convert('1'); pixels = img.load(); width, height = img.size;
\* pages = height // 8; byte_array = bytearray()
Convert ==
    /\ pc = "convert"
    /\ pixels' \in PixelGrids(imgSize)
    /\ width' = imgSize[1]
    /\ height' = imgSize[2]
    /\ pages' = PageCount(imgSize[2])
    /\ byte_array' = <<>>
    /\ page' = 0
    /\ x' = 0
    /\ pc' = "pack"
    /\ UNCHANGED <<exists, isBmp, openable, srcSize, imgSize, c_code, i, y,
                   stdout, stderr, exitCode>>

\* one iteration of "for x in range(width)" inside "for page in range(pages)"
PackStep ==
    /\ pc = "pack"
    /\ ~PackDone(page, pages)
    /\ byte_array' = Append(byte_array, PackByte(pixels, page, x, height))
    /\ IF x + 1 < width
       THEN x' = x + 1 /\ page' = page
       ELSE x' = 0 /\ page' = page + 1
    /\ UNCHANGED <<pc, exists, isBmp, openable, srcSize, imgSize, pixels, width,
                   height, pages, c_code, i, y, stdout, stderr, exitCode>>

\* ------------------------------------------------------------- the C code
HexDigits == <<"0", "1", "2", "3", "4", "5", "6", "7",
               "8", "9", "A", "B", "C", "D", "E", "F">>

\* f'0x{b:02X}'
Hex(b) == <<"0x", HexDigits[(b \div 16) + 1], HexDigits[(b % 16) + 1]>>

Indent == <<"    ">>
Separator == <<", ">>
Comma == <<",">>

\* ', '.join([...])
RECURSIVE Join(_)
Join(vals) ==
    IF Len(vals) = 0 THEN <<>>
    ELSE IF Len(vals) = 1 THEN <<Hex(vals[1])>>
    ELSE <<Hex(vals[1]), Separator>> \o Join(Tail(vals))

Min(a, b) == IF a < b THEN a ELSE b

\* byte_array[i:i + bytes_per_line]
Slice(arr, from) == SubSeq(arr, from + 1, Min(from + bytes_per_line, Len(arr)))

\* if i + bytes_per_line < len(byte_array): c_code += ","
NeedsCommaInclusive(from, n) == from + bytes_per_line <= n
NeedsComma(from, n) == from + bytes_per_line < n

\* one text line of the literal; the "\n" that ends it is the line boundary
HexLine(arr, from) ==
    <<Indent>> \o Join(Slice(arr, from))
               \o (IF NeedsComma(from, Len(arr)) THEN <<Comma>> ELSE <<>>)

\* "for page in range(pages)" is over: c_code = f"""...""" with the header
GenHeader ==
    /\ pc = "pack"
    /\ PackDone(page, pages)
    /\ c_code' = [width |-> width, height |-> height, bytes |-> Len(byte_array),
                  lines |-> <<>>, closed |-> FALSE]
    /\ i' = 0
    /\ pc' = "gen"
    /\ UNCHANGED <<exists, isBmp, openable, srcSize, imgSize, pixels, width,
                   height, pages, byte_array, page, x, y, stdout, stderr,
                   exitCode>>

\* one iteration of "for i in range(0, len(byte_array), bytes_per_line)"
GenLine ==
    /\ pc = "gen"
    /\ i < Len(byte_array)
    /\ c_code' = [c_code EXCEPT !.lines = Append(@, HexLine(byte_array, i))]
    /\ i' = i + bytes_per_line
    /\ UNCHANGED <<pc, exists, isBmp, openable, srcSize, imgSize, pixels, width,
                   height, pages, byte_array, page, x, y, stdout, stderr,
                   exitCode>>

\* c_code += "};\n\n"; print(c_code); the four lines of the success report;
\* the title of the preview and print("-" * 33)
PrintCode ==
    /\ pc = "gen"
    /\ i >= Len(byte_array)
    /\ c_code' = [c_code EXCEPT !.closed = TRUE]
    /\ stdout' = stdout \o << Out("code", c_code.lines),
                              Out("success", <<>>),
                              Out("preview_title", <<>>),
                              Out("separator", <<>>) >>
    /\ y' = 0
    /\ pc' = "preview"
    /\ UNCHANGED <<exists, isBmp, openable, srcSize, imgSize, pixels, width,
                   height, pages, byte_array, page, x, i, stderr, exitCode>>

\* ------------------------------------------------------------ the preview
Filled == "#"
Blank == " "

\* line += "█" if pixel == 0 else " ", for x in range(width)
PreviewLineHalf(px, row, w) ==
    [k \in 1 .. (w \div 2) |-> IF px[k - 1][row] = 0 THEN Filled ELSE Blank]
PreviewLine(px, row, w) ==
    [k \in 1 .. w |-> IF px[k - 1][row] = 0 THEN Filled ELSE Blank]

\* one iteration of "for y in range(height)": print(line)
PreviewRow ==
    /\ pc = "preview"
    /\ y < height
    /\ stdout' = Append(stdout, Out("preview", PreviewLine(pixels, y, width)))
    /\ y' = y + 1
    /\ UNCHANGED <<pc, exists, isBmp, openable, srcSize, imgSize, pixels, width,
                   height, pages, byte_array, page, x, c_code, i, stderr,
                   exitCode>>

\* print("-" * 33); the function and main return: exit status 0
PreviewEnd ==
    /\ pc = "preview"
    /\ y >= height
    /\ stdout' = Append(stdout, Out("separator", <<>>))
    /\ exitCode' = 0
    /\ pc' = "exit"
    /\ UNCHANGED <<exists, isBmp, openable, srcSize, imgSize, pixels, width,
                   height, pages, byte_array, page, x, c_code, i, y, stderr>>

Next ==
    \/ MainCheckExists
    \/ MainCheckExt
    \/ Open
    \/ CheckSize
    \/ Convert
    \/ PackStep
    \/ GenHeader
    \/ GenLine
    \/ PrintCode
    \/ PreviewRow
    \/ PreviewEnd

Spec == Init /\ [][Next]_vars

\* ============================================================== properties
ByteCount == DisplayWidth * DisplayPages

\* bit b of a byte value
BitSet(byte, b) == (byte \div (2 ^ b)) % 2 = 1

\* the pixel is dark in the source, i.e. lit on the display
Lit(px, cx, cy) == px[cx][cy] = 0

\* the packing loops are over
Packed == pc \in {"gen", "preview"} \/ (pc = "exit" /\ exitCode = 0)

IsCode(e) == e.kind = "code"
IsPreview(e) == e.kind = "preview"
IsValue(t) == Len(t) = 3 /\ t[1] = "0x"

DigitVal(d) == CHOOSE v \in 0 .. 15 : HexDigits[v + 1] = d
ValueOf(t) == 16 * DigitVal(t[2]) + DigitVal(t[3])

\* the numbers a text line of the literal lists, in order
RECURSIVE LineValues(_)
LineValues(line) ==
    IF Len(line) = 0 THEN <<>>
    ELSE IF IsValue(Head(line)) THEN <<ValueOf(Head(line))>> \o LineValues(Tail(line))
    ELSE LineValues(Tail(line))

RECURSIVE TextValues(_)
TextValues(lines) ==
    IF Len(lines) = 0 THEN <<>>
    ELSE LineValues(Head(lines)) \o TextValues(Tail(lines))

\* C1: for every page p, column x and bit b the byte at index p*W + x has
\* bit b set iff the pixel (x, p*8 + b) is dark; the bytes are appended page
\* by page and, inside a page, column by column.
C1_BitLayout ==
    /\ pc = "pack" /\ page < pages => Len(byte_array) = page * DisplayWidth + x
    /\ Len(byte_array) <= ByteCount
    /\ Packed => Len(byte_array) = ByteCount
    /\ \A p \in 0 .. DisplayPages - 1 : \A cx \in 0 .. DisplayWidth - 1 :
          p * DisplayWidth + cx < Len(byte_array) =>
             \A b \in 0 .. 7 :
                BitSet(byte_array[p * DisplayWidth + cx + 1], b)
                   <=> Lit(pixels, cx, p * 8 + b)

\* a finished packing with a byte that mixes lit and unlit pixels
C1_Witness ==
    /\ Packed
    /\ \E k \in 1 .. Len(byte_array) : byte_array[k] \notin {0, 255}

\* C2: when packing finishes the output has exactly width * (height / 8)
\* bytes, and during packing its length never exceeds that number.
C2_Length ==
    /\ Len(byte_array) <= ByteCount
    /\ Packed => Len(byte_array) = DisplayWidth * (DisplayHeight \div PageRows)

C2_Witness == pc = "gen" /\ Len(byte_array) = ByteCount

\* C3 as stated: an image whose dimensions differ from the display's makes
\* the conversion fail; nothing is scaled and no byte is packed.
C3_MismatchFails ==
    (exists /\ openable /\ srcSize # DisplaySize) =>
        /\ imgSize \in {<<0, 0>>, srcSize}
        /\ Len(byte_array) = 0
        /\ pc = "exit" => exitCode = 1

\* C3 amended: an image whose dimensions differ from the display's is
\* announced by the two warnings, scaled to the display's size and packed into
\* the full byte array; the run ends with exit status 0.
C3_MismatchRescaled ==
    (exists /\ openable /\ srcSize # DisplaySize
       /\ pc \notin {"main", "check_ext", "open", "check_size"}) =>
        /\ imgSize = DisplaySize
        /\ \E k \in 1 .. Len(stdout) - 1 :
              stdout[k].kind = "warn_size" /\ stdout[k + 1].kind = "warn_scaled"
        /\ \A k \in 1 .. Len(stdout) : stdout[k].kind # "error"
        /\ pc # "convert" => width = DisplayWidth /\ height = DisplayHeight
        /\ pc = "exit" => exitCode = 0 /\ Len(byte_array) = ByteCount

C3_Witness ==
    /\ srcSize = SmallSize
    /\ pc = "exit" /\ exitCode = 0
    /\ Len(byte_array) = ByteCount

\* the grid the bytes describe: pixel (x, y) is lit iff bit y mod 8 of the
\* byte (y div 8) * w + x is set
Unpack(bytes, w, h) ==
    [cx \in 0 .. w - 1 |->
        [cy \in 0 .. h - 1 |-> BitSet(bytes[(cy \div 8) * w + cx + 1], cy % 8)]]

LitGrid(px, w, h) == [cx \in 0 .. w - 1 |-> [cy \in 0 .. h - 1 |-> px[cx][cy] = 0]]

\* C4: unpacking the packed bytes yields the lit/unlit pattern of the
\* original grid at every (x, y).
C4_RoundTrip ==
    Packed =>
        /\ Len(byte_array) = ByteCount
        /\ Unpack(byte_array, DisplayWidth, DisplayHeight)
              = LitGrid(pixels, DisplayWidth, DisplayHeight)

\* a packed grid with a lit and an unlit pixel inside one byte
C4_Witness ==
    /\ pc = "exit" /\ exitCode = 0
    /\ \E cx \in 0 .. DisplayWidth - 1 :
          Lit(pixels, cx, 1) /\ ~Lit(pixels, cx, 6)

SegmentAll(px, p, cx, v) == \A b \in 0 .. 7 : px[cx][p * 8 + b] = v

\* C5: a column segment of 8 dark pixels packs to 0xFF and one of 8 light
\* pixels to 0x00.
C5_UniformSegments ==
    /\ Len(byte_array) <= ByteCount
    /\ \A k \in 1 .. Len(byte_array) :
          LET p == (k - 1) \div DisplayWidth
              cx == (k - 1) % DisplayWidth
          IN  /\ SegmentAll(pixels, p, cx, Black) => byte_array[k] = 255
              /\ SegmentAll(pixels, p, cx, White) => byte_array[k] = 0
    /\ Packed => Len(byte_array) = ByteCount

\* a packed checkerboard: bytes 0x00 and 0xFF and no others
C5_Witness ==
    /\ Packed
    /\ \A cx \in 0 .. DisplayWidth - 1 : \A cy \in 0 .. DisplayHeight - 1 :
          pixels[cx][cy] = BaseValue("checker0", cx, cy)
    /\ byte_array[1] = 255
    /\ byte_array[DisplayWidth + 1] = 0
    /\ \A k \in 1 .. Len(byte_array) : byte_array[k] \in {0, 255}

\* C6: the array text is written only after the last byte has been packed and
\* lists all width * pages bytes; a run that ends in the error exit has
\* written no array text.
C6_NoPartialOutput ==
    /\ \A k \in 1 .. Len(stdout) :
          IsCode(stdout[k]) =>
             /\ pc \in {"preview", "exit"}
             /\ Len(byte_array) = ByteCount
             /\ Len(TextValues(stdout[k].text)) = ByteCount
    /\ pc = "exit" /\ exitCode # 0 =>
          \A k \in 1 .. Len(stdout) : ~IsCode(stdout[k]) /\ ~IsPreview(stdout[k])
    /\ pc = "exit" /\ exitCode = 0 => \E k \in 1 .. Len(stdout) : IsCode(stdout[k])

C6_Witness ==
    /\ pc = "preview"
    /\ \E k \in 1 .. Len(stdout) :
          IsCode(stdout[k]) /\ Len(TextValues(stdout[k].text)) = ByteCount

\* the tokens of a line after the indentation and before the trailing comma
LineBody(line) ==
    IF Len(line) > 1 /\ line[Len(line)] = Comma
    THEN SubSeq(line, 2, Len(line) - 1)
    ELSE SubSeq(line, 2, Len(line))

LineCount(n) == (n + bytes_per_line - 1) \div bytes_per_line

\* C8: the literal lists every packed byte once, in packed order, in lines of
\* 16 values (the last may hold fewer); every line but the last ends with a
\* comma, the last does not; values are separated by exactly one comma.
C8_LiteralLayout ==
    \A k \in 1 .. Len(stdout) :
       IsCode(stdout[k]) =>
          LET text == stdout[k].text
              n == Len(byte_array)
          IN  /\ TextValues(text) = byte_array
              /\ Len(text) = LineCount(n)
              /\ \A j \in 1 .. Len(text) :
                    LET line == text[j]
                        body == LineBody(line)
                        count == Len(LineValues(line))
                    IN  /\ line[1] = Indent
                        /\ count = IF j < Len(text) THEN bytes_per_line
                                   ELSE n - bytes_per_line * (Len(text) - 1)
                        /\ count \in 1 .. bytes_per_line
                        /\ (line[Len(line)] = Comma) <=> (j < Len(text))
                        /\ Len(body) = 2 * count - 1
                        /\ \A t \in 1 .. Len(body) :
                              IF t % 2 = 1 THEN IsValue(body[t])
                              ELSE body[t] = Separator

C8_Witness ==
    \E k \in 1 .. Len(stdout) :
       /\ IsCode(stdout[k])
       /\ Len(stdout[k].text) >= 2
       /\ \E a, b \in 1 .. Len(byte_array) : byte_array[a] # byte_array[b]

\* C9 as stated: a missing input path ends the program with a non-zero status
\* and a message on standard error, standard output staying empty.
C9_MessageOnStderr ==
    (~exists /\ pc = "exit") =>
        /\ exitCode # 0
        /\ Len(stderr) > 0
        /\ Len(stdout) = 0

\* C9 amended: a missing input path ends the program with status 1 after one
\* message written to standard output; nothing goes to standard error, no
\* conversion is started and no array code or preview is written.
C9_NotFoundExit ==
    (~exists /\ pc # "main") =>
        /\ pc = "exit"
        /\ exitCode = 1
        /\ Len(stderr) = 0
        /\ Len(stdout) = 1 /\ stdout[1].kind = "file_not_found"
        /\ imgSize = <<0, 0>> /\ Len(byte_array) = 0 /\ ~c_code.closed

C9_Witness == ~exists /\ pc = "exit" /\ exitCode = 1 /\ Len(stdout) = 1

PreviewRows == SelectSeq(stdout, IsPreview)

====
